---- MODULE Spec2Model ----
(***************************************************************************)
(* A model of the safetyagent repository's retrieval-and-answer pipeline.  *)
(*                                                                         *)
(* The repository ships two entry points that keep a knowledge base:       *)
(*   - src/simple_server.py: the in-memory knowledge_base dict with the    *)
(*     separately kept stats counters, the word-window chunker and the     *)
(*     lexical ranker find_relevant_chunks;                                *)
(*   - src/backend/document_loader.py (served by src/backend/main.py):     *)
(*     the documents_metadata dict and the persistent vector store.        *)
(* A behaviour of Spec runs one of the two (variable program).  SpecRank   *)
(* applies the ranker, a function of the question, the limit and the       *)
(* corpus, to inputs drawn in its initial states.  SpecChunk does the same *)
(* for the chunker.  SpecChat serves /api/chat, /api/stats and /api/upload *)
(* requests of simple_server.py on its one event loop.                     *)
(*                                                                         *)
(* Text is a sequence of one-character strings, so that lower(), split(),  *)
(* strip() and the substring test are computed as Python computes them.    *)
(***************************************************************************)
EXTENDS Integers, Sequences, FiniteSets, TLC

VARIABLES
    program,            \* which entry point runs: "simple_server", "backend", "rank"
    last_op,            \* the last operation called, its argument and what it returned
    knowledge_base,     \* simple_server.knowledge_base, in dict (insertion) order
    stats,              \* simple_server.stats
    question,           \* find_relevant_chunks: argument question
    max_chunks,         \* find_relevant_chunks: argument max_chunks
    relevant_chunks,    \* find_relevant_chunks: the returned list
    files,              \* backend: the files on disk, path -> [exists, mtime, nchunks]
    documents_metadata, \* SafetyAgentDocumentLoader.documents_metadata
    vectorstore,        \* the persisted Chroma collection, as a list of chunks
    removed,            \* doc ids for which delete_document returned True
    chunk_input,        \* chunk_text: the text, the window size and the overlap
    chunk_output,       \* chunk_text: the returned list of chunks
    openai_client,      \* simple_server.openai_client: TRUE when a client was built
    generator_call,     \* the chat.completions.create call the event loop waits in
    answer,             \* what the last /api/chat request returned
    pending,            \* the /api/upload requests suspended in await file.read()
    temp_files          \* the temp_{filename} files in the working directory

vars == <<program, last_op, knowledge_base, stats, question, max_chunks,
          relevant_chunks, files, documents_metadata, vectorstore,
          removed, chunk_input, chunk_output, openai_client, generator_call,
          answer, pending, temp_files>>

serverVars == <<knowledge_base, stats>>
rankVars == <<question, max_chunks, relevant_chunks>>
backendVars == <<files, documents_metadata, vectorstore, removed>>
chunkVars == <<chunk_input, chunk_output>>
chatVars == <<openai_client, generator_call, answer>>
uploadVars == <<pending, temp_files>>

----------------------------------------------------------------------------
(* Bounds of the model. *)

MaxQueryLen == 3        \* characters in a question
MaxCorpusChunks == 2    \* chunks in the corpus the ranker scans
MaxLimit == 2           \* largest max_chunks passed to the ranker
MaxDocs == 3            \* documents in simple_server's knowledge base
MaxManualChunks == 2    \* chunks in the pre-chunked safety manual
MaxMtime == 1           \* times a file is rewritten on disk
MaxFileChunks == 2      \* chunks the splitter makes of a file
MaxStore == 4           \* chunks held by the vector store
MaxK == 2               \* largest k passed to search_documents

(* Program constants. *)

chunk_size == 1000
chunk_overlap == 200
PhraseBonus == 2
DefaultMaxChunks == 5

----------------------------------------------------------------------------
(* Text: characters, lower(), split(), strip(), join, substring. *)

Chars == {"a", "b", "A", " ", "?"}
Whitespace == {" "}
StripChars == {".", ",", "!", "?"}

Min(a, b) == IF a <= b THEN a ELSE b

UpperCase == <<"A", "B", "C", "D", "E", "F", "G", "H", "I", "J", "K", "L", "M",
               "N", "O", "P", "Q", "R", "S", "T", "U", "V", "W", "X", "Y", "Z">>
LowerCase == <<"a", "b", "c", "d", "e", "f", "g", "h", "i", "j", "k", "l", "m",
               "n", "o", "p", "q", "r", "s", "t", "u", "v", "w", "x", "y", "z">>

LowerOf ==
    [c \in {UpperCase[i] : i \in 1..Len(UpperCase)} |->
        LowerCase[CHOOSE i \in 1..Len(UpperCase) : UpperCase[i] = c]]

\* str.lower() on one character
LowerChar(c) == IF c \in DOMAIN LowerOf THEN LowerOf[c] ELSE c

\* str.lower()
Lower(t) == [i \in 1..Len(t) |-> LowerChar(t[i])]

\* str.split(): the maximal runs of non-whitespace characters, in order
RECURSIVE SplitFrom(_, _, _)
SplitFrom(t, i, cur) ==
    IF i > Len(t)
    THEN IF cur = <<>> THEN <<>> ELSE <<cur>>
    ELSE IF t[i] \in Whitespace
         THEN IF cur = <<>>
              THEN SplitFrom(t, i + 1, <<>>)
              ELSE <<cur>> \o SplitFrom(t, i + 1, <<>>)
         ELSE SplitFrom(t, i + 1, Append(cur, t[i]))

Split(t) == SplitFrom(t, 1, <<>>)

\* str.strip(chars): drop leading and trailing characters of the set
RECURSIVE LStrip(_, _)
LStrip(w, cs) ==
    IF w # <<>> /\ Head(w) \in cs THEN LStrip(Tail(w), cs) ELSE w

RECURSIVE RStrip(_, _)
RStrip(w, cs) ==
    IF w # <<>> /\ w[Len(w)] \in cs THEN RStrip(SubSeq(w, 1, Len(w) - 1), cs) ELSE w

Strip(w, cs) == RStrip(LStrip(w, cs), cs)

\* "".join(words): the separator lost
RECURSIVE JoinNoBlank(_)
JoinNoBlank(ws) ==
    IF ws = <<>> THEN <<>> ELSE ws[1] \o JoinNoBlank(Tail(ws))

\* " ".join(words)
RECURSIVE Join(_)
Join(ws) ==
    IF ws = <<>> THEN <<>>
    ELSE IF Len(ws) = 1 THEN ws[1]
    ELSE ws[1] \o <<" ">> \o Join(Tail(ws))

\* needle in hay (Python's substring test; the empty string is in every string)
Contains(hay, needle) ==
    \E i \in 0..(Len(hay) - Len(needle)) :
        SubSeq(hay, i + 1, i + Len(needle)) = needle

----------------------------------------------------------------------------
(* simple_server.py: documents, chunks and the chunker. *)

\* a chunk that no query has scored yet carries no 'relevance_score' key
NoScore == [num |-> -1, den |-> 1]

SafetyManualId == [kind |-> "safety_manual", n |-> 0]
\* every upload named doc_0
UploadIdFixed(n) == [kind |-> "doc", n |-> 0]

\* f"doc_{len(knowledge_base)}"
UploadId(n) == [kind |-> "doc", n |-> n]

\* f"{doc_id}_chunk_{k}"
ChunkId(doc_id, k) == [doc |-> doc_id, k |-> k]

\* a chunk whose word_count is len(chunk_text), the characters
NewChunkCharCount(metadata, text, index, word_count) ==
    [id |-> ChunkId(metadata.doc_id, index),
     text |-> text,
     doc_id |-> metadata.doc_id,
     filename |-> metadata.filename,
     category |-> metadata.category,
     chunk_index |-> index,
     word_count |-> Len(text),
     relevance_score |-> NoScore]

NewChunk(metadata, text, index, word_count) ==
    [id |-> ChunkId(metadata.doc_id, index),
     text |-> text,
     doc_id |-> metadata.doc_id,
     filename |-> metadata.filename,
     category |-> metadata.category,
     chunk_index |-> index,
     word_count |-> word_count,
     relevance_score |-> NoScore]

\* the loop of chunk_text stepping by the whole window: range(0, len(words), size)
RECURSIVE ChunkLoopNoOverlap(_, _, _, _, _, _)
ChunkLoopNoOverlap(words, i, size, overlap, metadata, chunks) ==
    IF i >= Len(words)
    THEN chunks
    ELSE LET chunk_words == SubSeq(words, i + 1, Min(i + size, Len(words)))
             text == Join(chunk_words)
             emitted == IF Strip(text, Whitespace) # <<>>
                        THEN Append(chunks,
                                    NewChunk(metadata, text, Len(chunks), Len(chunk_words)))
                        ELSE chunks
         IN ChunkLoopNoOverlap(words, i + size, size, overlap, metadata, emitted)

\* the loop of chunk_text with a window one word short: words[i:i + size - 1]
RECURSIVE ChunkLoopShortWindow(_, _, _, _, _, _)
ChunkLoopShortWindow(words, i, size, overlap, metadata, chunks) ==
    IF i >= Len(words)
    THEN chunks
    ELSE LET chunk_words == SubSeq(words, i + 1, Min(i + size - 1, Len(words)))
             text == Join(chunk_words)
             emitted == IF Strip(text, Whitespace) # <<>>
                        THEN Append(chunks,
                                    NewChunk(metadata, text, Len(chunks), Len(chunk_words)))
                        ELSE chunks
         IN ChunkLoopShortWindow(words, i + (size - overlap), size, overlap, metadata, emitted)

\* the loop of chunk_text: i runs over range(0, len(words), size - overlap)
RECURSIVE ChunkLoop(_, _, _, _, _, _)
ChunkLoop(words, i, size, overlap, metadata, chunks) ==
    IF i >= Len(words)
    THEN chunks
    ELSE LET chunk_words == SubSeq(words, i + 1, Min(i + size, Len(words)))
             text == Join(chunk_words)
             emitted == IF Strip(text, Whitespace) # <<>>
                        THEN Append(chunks,
                                    NewChunk(metadata, text, Len(chunks), Len(chunk_words)))
                        ELSE chunks
         IN ChunkLoop(words, i + (size - overlap), size, overlap, metadata, emitted)

\* SimpleDocumentProcessor.chunk_text, with the window and overlap as parameters
ChunkText(text, metadata, size, overlap) ==
    ChunkLoop(Split(text), 0, size, overlap, metadata, <<>>)

\* SimpleDocumentProcessor.chunk_text as the server calls it
chunk_text(text, metadata) == ChunkText(text, metadata, chunk_size, chunk_overlap)

----------------------------------------------------------------------------
(* simple_server.py: find_relevant_chunks. *)

\* for doc in knowledge_base.items(): for chunk in doc['chunks']: in that order
RECURSIVE AllChunks(_)
AllChunks(kb) ==
    IF kb = <<>> THEN <<>> ELSE Head(kb).chunks \o AllChunks(Tail(kb))

\* question_lower.split()
QuestionPhrases(q) == Split(Lower(q))

\* [word.strip('.,!?') for word in question_lower.split()]
QuestionWords(q) ==
    [i \in 1..Len(QuestionPhrases(q)) |-> Strip(QuestionPhrases(q)[i], StripChars)]

\* sum(1 for word in question_words if word in chunk_text_lower)
WordMatches(words, chunk_text_lower) ==
    Cardinality({i \in 1..Len(words) : Contains(chunk_text_lower, words[i])})

\* any(phrase in chunk_text_lower for phrase in question_lower.split())
PhraseMatch(q, chunk_text_lower) ==
    \E i \in 1..Len(QuestionPhrases(q)) :
        Contains(chunk_text_lower, QuestionPhrases(q)[i])

IsHitOrZero(matches) == matches >= 0

\* if matches > 0:
IsHit(matches) == matches > 0

\* the bonus given only when the whole lowercased question is in the chunk
BoostedWholeQuestion(q, chunk_text_lower, matches) ==
    IF Contains(chunk_text_lower, Lower(q)) THEN matches + PhraseBonus ELSE matches

\* if any(phrase in chunk ...): matches += 2
Boosted(q, chunk_text_lower, matches) ==
    IF PhraseMatch(q, chunk_text_lower) THEN matches + PhraseBonus ELSE matches

\* matches / len(question_words): the quotient is kept as numerator and
\* denominator; a zero denominator is Python's ZeroDivisionError
RelevanceScore(q, chunk) ==
    LET lower == Lower(chunk.text)
        matches == WordMatches(QuestionWords(q), lower)
    IN [num |-> Boosted(q, lower, matches), den |-> Len(QuestionWords(q))]

ChunkIsHit(q, chunk) == IsHit(WordMatches(QuestionWords(q), Lower(chunk.text)))

\* the scan raises when a hit is scored against zero question words
ScanRaises(q, kb) ==
    \E i \in 1..Len(AllChunks(kb)) :
        ChunkIsHit(q, AllChunks(kb)[i]) /\ Len(QuestionWords(q)) = 0

\* chunk['relevance_score'] = ... is an assignment to the chunk the knowledge base holds
ScoreChunk(q, chunk) ==
    IF ChunkIsHit(q, chunk)
    THEN [chunk EXCEPT !.relevance_score = RelevanceScore(q, chunk)]
    ELSE chunk

ScoredBase(q, kb) ==
    [d \in 1..Len(kb) |->
        [kb[d] EXCEPT !.chunks =
            [c \in 1..Len(kb[d].chunks) |-> ScoreChunk(q, kb[d].chunks[c])]]]

\* relevant_chunks as the loop leaves it: the hits, in scan order
RECURSIVE Hits(_, _)
Hits(q, chunks) ==
    IF chunks = <<>> THEN <<>>
    ELSE IF ChunkIsHit(q, Head(chunks))
         THEN <<ScoreChunk(q, Head(chunks))>> \o Hits(q, Tail(chunks))
         ELSE Hits(q, Tail(chunks))

\* a.relevance_score >= b.relevance_score, on quotients with positive denominators
ScoreGeq(a, b) == a.num * b.den >= b.num * a.den
ScoreGt(a, b) == a.num * b.den > b.num * a.den

\* list.sort(key=..., reverse=True) is stable: equal keys keep their order
RECURSIVE InsertDesc(_, _)
InsertDesc(sorted, x) ==
    IF sorted = <<>> THEN <<x>>
    ELSE IF ScoreGeq(Head(sorted).relevance_score, x.relevance_score)
         THEN <<Head(sorted)>> \o InsertDesc(Tail(sorted), x)
         ELSE <<x>> \o sorted

RECURSIVE SortDescFrom(_, _)
SortDescFrom(sorted, rest) ==
    IF rest = <<>> THEN sorted
    ELSE SortDescFrom(InsertDesc(sorted, Head(rest)), Tail(rest))

SortUnsorted(chunks) == chunks

\* list.sort(key=...) without reverse=True: ascending, stable
RECURSIVE InsertAsc(_, _)
InsertAsc(sorted, x) ==
    IF sorted = <<>> THEN <<x>>
    ELSE IF ScoreGeq(x.relevance_score, Head(sorted).relevance_score)
         THEN <<Head(sorted)>> \o InsertAsc(Tail(sorted), x)
         ELSE <<x>> \o sorted

RECURSIVE SortAscFrom(_, _)
SortAscFrom(sorted, rest) ==
    IF rest = <<>> THEN sorted
    ELSE SortAscFrom(InsertAsc(sorted, Head(rest)), Tail(rest))

SortAscending(chunks) == SortAscFrom(<<>>, chunks)

\* relevant_chunks.sort(key=lambda x: x.get('relevance_score', 0), reverse=True)
SortByRelevance(chunks) == SortDescFrom(<<>>, chunks)

\* relevant_chunks[:max_chunks], for max_chunks >= 0
Truncate(chunks, limit) == SubSeq(chunks, 1, Min(limit, Len(chunks)))

\* what find_relevant_chunks returns when it does not raise
RankResult(q, kb, limit) == Truncate(SortByRelevance(Hits(q, AllChunks(kb))), limit)

\* find_relevant_chunks(question, max_chunks)
find_relevant_chunks(q, limit) ==
    /\ question' = q
    /\ max_chunks' = limit
    /\ IF ScanRaises(q, knowledge_base)
       THEN /\ relevant_chunks' = <<>>
            /\ last_op' = [op |-> "find_relevant_chunks", arg |-> "question",
                            ret |-> "ZeroDivisionError"]
            \* the scan stops at the first chunk it cannot score
            /\ knowledge_base' = knowledge_base
       ELSE /\ relevant_chunks' = RankResult(q, knowledge_base, limit)
            /\ last_op' = [op |-> "find_relevant_chunks", arg |-> "question",
                            ret |-> "returned"]
            /\ knowledge_base' = ScoredBase(q, knowledge_base)
    /\ UNCHANGED <<program, uploadVars, chunkVars, chatVars, stats, backendVars>>

----------------------------------------------------------------------------
(* simple_server.py: the knowledge base and its stats counters. *)

\* knowledge_base[doc_id] = doc: a present key keeps its place, a new key is appended
DictSet(kb, doc) ==
    IF \E i \in 1..Len(kb) : kb[i].doc_id = doc.doc_id
    THEN [i \in 1..Len(kb) |-> IF kb[i].doc_id = doc.doc_id THEN doc ELSE kb[i]]
    ELSE Append(kb, doc)

HasDoc(kb, doc_id) == \E i \in 1..Len(kb) : kb[i].doc_id = doc_id

DocAt(kb, doc_id) == kb[CHOOSE i \in 1..Len(kb) : kb[i].doc_id = doc_id]

InSeq(x, seq) == \E i \in 1..Len(seq) : seq[i] = x

\* the uploads the model tries: a supported and an unsupported extension
UploadFiles == {[stem |-> "a", ext |-> ".txt"], [stem |-> "b", ext |-> ".exe"]}
allowed_extensions == {".pdf", ".txt", ".md", ".docx", ".doc"}
Categories == {"general", "ppe"}

\* the texts extraction yields: nothing, or a few words
UploadTexts == {<<>>, <<"b", " ", "a">>}

\* the chunk contents of a pre-chunked safety manual
ManualTexts == {<<"a">>}
ManualData == UNION {[1..n -> ManualTexts] : n \in 0..MaxManualChunks}
ManualFile == [stem |-> "manual", ext |-> ".docx"]

\* load_safety_manual: stats['total_documents'] = 1, stats['total_chunks'] =
\* len(chunks), stats['categories'] = ['safety_manual']
ManualStats(chunks) ==
    [total_documents |-> 1,
     total_chunks |-> Len(chunks),
     categories |-> <<"safety_manual">>]

\* load_safety_manual: metadata of the manual
ManualMeta == [doc_id |-> SafetyManualId, filename |-> ManualFile,
               category |-> "safety_manual"]

\* load_safety_manual: the chunks taken over from the JSON, not re-chunked
\* (word_count is the JSON's own figure, taken here to be the true one)
ManualChunks(texts) ==
    [i \in 1..Len(texts) |->
        NewChunk(ManualMeta, texts[i], i - 1, Len(Split(texts[i])))]

\* load_safety_manual(): outcome "missing" is the early return when no manual
\* is configured, "malformed" an exception while reading it, "loaded" the rest
load_safety_manual(outcome, texts) ==
    /\ program = "simple_server"
    /\ IF outcome = "loaded"
       THEN LET chunks == ManualChunks(texts)
                doc == [doc_id |-> SafetyManualId, filename |-> ManualFile,
                        category |-> ManualMeta.category, chunks |-> chunks]
            IN /\ knowledge_base' = DictSet(knowledge_base, doc)
               /\ stats' = ManualStats(chunks)
               /\ last_op' = [op |-> "load_safety_manual",
                              arg |-> [doc_id |-> SafetyManualId, content |-> texts],
                              ret |-> "True"]
       ELSE /\ UNCHANGED <<knowledge_base, stats>>
            /\ last_op' = [op |-> "load_safety_manual",
                           arg |-> [doc_id |-> SafetyManualId, content |-> texts],
                           ret |-> IF outcome = "missing" THEN "None" ELSE "False"]
    /\ UNCHANGED <<program, uploadVars, chunkVars, chatVars, rankVars, backendVars>>

\* the counters with the document counted and its chunks not
UploadStatsDocumentsOnly(category, chunks) ==
    [total_documents |-> stats.total_documents + 1,
     total_chunks |-> stats.total_chunks,
     categories |-> IF InSeq(category, stats.categories)
                    THEN stats.categories
                    ELSE Append(stats.categories, category)]

\* upload_document: stats['total_documents'] += 1, stats['total_chunks'] +=
\* len(chunks), the category appended when it is new
UploadStats(category, chunks) ==
    [total_documents |-> stats.total_documents + 1,
     total_chunks |-> stats.total_chunks + Len(chunks),
     categories |-> IF InSeq(category, stats.categories)
                    THEN stats.categories
                    ELSE Append(stats.categories, category)]

\* upload_document(file, category), text being what extract_text returns;
\* the HTTPException(400) raised in the try block is caught by its own
\* except Exception and answered as a 500
upload_document(file, category, text) ==
    /\ program = "simple_server"
    /\ ~generator_call.waiting
    /\ Len(knowledge_base) < MaxDocs
    /\ IF file.ext \notin allowed_extensions
       THEN /\ UNCHANGED <<knowledge_base, stats>>
            /\ last_op' = [op |-> "upload_document",
                           arg |-> [doc_id |-> UploadId(Len(knowledge_base)),
                                    content |-> text],
                           ret |-> "500"]
       ELSE LET doc_id == UploadId(Len(knowledge_base))
                metadata == [doc_id |-> doc_id, filename |-> file,
                             category |-> category]
                chunks == chunk_text(text, metadata)
                doc == [doc_id |-> doc_id, filename |-> file,
                        category |-> category, chunks |-> chunks]
            IN /\ knowledge_base' = DictSet(knowledge_base, doc)
               /\ stats' = UploadStats(category, chunks)
               /\ last_op' = [op |-> "upload_document",
                              arg |-> [doc_id |-> doc_id, content |-> text],
                              ret |-> "200"]
    /\ UNCHANGED <<program, uploadVars, chunkVars, chatVars, rankVars, backendVars>>

\* GET /api/stats returns the stats dict as it stands
get_stats ==
    /\ program = "simple_server"
    /\ ~generator_call.waiting
    /\ last_op' = [op |-> "get_stats", arg |-> stats, ret |-> "200"]
    /\ UNCHANGED <<program, uploadVars, chunkVars, chatVars, serverVars, rankVars, backendVars>>

----------------------------------------------------------------------------
(* backend/document_loader.py and backend/main.py: the loader, its vector   *)
(* store and the files it reads.                                            *)

NoOp == [op |-> "none", arg |-> "none", ret |-> "none"]

ManualPath == "../EmployeeSafetyManual.docx"
UploadPath == "data/uploads/a.docx"
Paths == {ManualPath, UploadPath}

NoFile == [exists |-> FALSE, mtime |-> 0, nchunks |-> 0]
NoFiles == [p \in Paths |-> NoFile]

\* _generate_doc_id: md5 of the path and the modification time, taken to be
\* injective in the pair
generate_doc_id(fs, path) == [path |-> path, mtime |-> fs[path].mtime]

DocIds == [path : Paths, mtime : 0..MaxMtime]

EmptyMap == [d \in {} |-> 0]
MapSet(m, k, v) == [d \in (DOMAIN m) \cup {k} |-> IF d = k THEN v ELSE m[d]]
MapDel(m, k) == [d \in (DOMAIN m) \ {k} |-> m[d]]

\* text_splitter.split_documents: the file's chunks, each carrying doc_metadata
SplitChunks(doc_id, n) == [i \in 1..n |-> [doc_id |-> doc_id, index |-> i - 1]]

\* self.vectorstore.add_documents(chunks): the chunks are added to the collection
StoreAdding(store, doc_id, n) == store \o SplitChunks(doc_id, n)

MetadataAccumulating(docs, doc_id, path, n, category) ==
    MapSet(docs, doc_id,
           [file_path |-> path,
            chunks_count |-> IF doc_id \in DOMAIN docs
                             THEN docs[doc_id].chunks_count + n ELSE n,
            category |-> category,
            doc_id |-> doc_id])

\* self.documents_metadata[doc_id] = {file_path, chunks_count, metadata, loaded_at},
\* the category and the doc_id being those of its "metadata"
MetadataStoring(docs, doc_id, path, n, category) ==
    MapSet(docs, doc_id,
           [file_path |-> path, chunks_count |-> n, category |-> category,
            doc_id |-> doc_id])

\* the number of chunks the collection holds for a document
StoreCount(store, doc_id) == Len(SelectSeq(store, LAMBDA c : c.doc_id = doc_id))

\* load_document(file_path, metadata) on the files fs and the metadata docs:
\* it raises when the file is missing or a collaborator (reader, embeddings,
\* Chroma) fails, and nothing is stored then
LoadEffect(fs, docs, path, category, ok) ==
    IF fs[path].exists /\ ok
    THEN LET doc_id == generate_doc_id(fs, path)
             n == fs[path].nchunks
         IN /\ vectorstore' = StoreAdding(vectorstore, doc_id, n)
            /\ documents_metadata' = MetadataStoring(docs, doc_id, path, n, category)
            /\ removed' = removed \ {doc_id}
    ELSE /\ vectorstore' = vectorstore
         /\ documents_metadata' = docs
         /\ removed' = removed

LoadRet(fs, path, ok) == IF fs[path].exists /\ ok THEN "returned" ELSE "raised"

LoadArg(fs, path) ==
    [doc_id |-> generate_doc_id(fs, path), content |-> fs[path].nchunks]

\* what main.upload_document was given and what it loaded
UploadArg(fs, file) ==
    [doc_id |-> generate_doc_id(fs, UploadPath),
     content |-> fs[UploadPath].nchunks,
     file |-> file]

\* get_document_loader: the endpoints answer 503 until startup_event has run
Started == last_op.op # "none"

\* SafetyAgentDocumentLoader.load_document(file_path, metadata)
load_document(path, category, ok) ==
    /\ program = "backend"
    /\ Started
    /\ Len(vectorstore) + files[path].nchunks <= MaxStore
    /\ LoadEffect(files, documents_metadata, path, category, ok)
    /\ last_op' = [op |-> "load_document", arg |-> LoadArg(files, path),
                   ret |-> LoadRet(files, path, ok)]
    /\ UNCHANGED <<program, uploadVars, chunkVars, chatVars, serverVars, rankVars, files>>

\* main.upload_document(file, category): the file is written under
\* data/uploads and handed to load_document; every exception, the
\* HTTPException(400) for the extension included, is answered as a 500
backend_upload_document(file, category, n, ok) ==
    /\ program = "backend"
    /\ Started
    /\ IF file.ext \notin allowed_extensions
       THEN /\ UNCHANGED backendVars
            /\ last_op' = [op |-> "backend_upload_document",
                           arg |-> UploadArg(files, file), ret |-> "500"]
       ELSE /\ files[UploadPath].mtime < MaxMtime
            /\ Len(vectorstore) + n <= MaxStore
            /\ files' = [files EXCEPT ![UploadPath] =
                            [exists |-> TRUE, mtime |-> @.mtime + 1, nchunks |-> n]]
            /\ LoadEffect(files', documents_metadata, UploadPath, category, ok)
            /\ last_op' = [op |-> "backend_upload_document",
                           arg |-> UploadArg(files', file),
                           ret |-> IF ok THEN "200" ELSE "500"]
    /\ UNCHANGED <<program, uploadVars, chunkVars, chatVars, serverVars, rankVars>>

\* main.startup_event, at every start of the process: a new loader, whose
\* documents_metadata is empty and whose Chroma collection is the persisted
\* one, then the safety manual is loaded when the file is there
startup_event(ok) ==
    /\ program = "backend"
    /\ Len(vectorstore) + files[ManualPath].nchunks <= MaxStore
    /\ LoadEffect(files, EmptyMap, ManualPath, "safety_manual", ok)
    /\ last_op' = [op |-> "startup_event", arg |-> LoadArg(files, ManualPath),
                   ret |-> LoadRet(files, ManualPath, ok)]
    /\ UNCHANGED <<program, uploadVars, chunkVars, chatVars, serverVars, rankVars, files>>

delete_document_always_true(doc_id) ==
    /\ program = "backend"
    /\ Started
    /\ documents_metadata' = MapDel(documents_metadata, doc_id)
    /\ removed' = removed \cup {doc_id}
    /\ last_op' = [op |-> "delete_document", arg |-> doc_id, ret |-> "True"]
    /\ UNCHANGED <<program, uploadVars, chunkVars, chatVars, serverVars, rankVars, files, vectorstore>>

\* SafetyAgentDocumentLoader.delete_document(doc_id): only the metadata entry
\* is dropped, the collection keeps the document's chunks
delete_document(doc_id) ==
    /\ program = "backend"
    /\ Started
    /\ IF doc_id \notin DOMAIN documents_metadata
       THEN /\ UNCHANGED <<documents_metadata, removed>>
            /\ last_op' = [op |-> "delete_document", arg |-> doc_id, ret |-> "False"]
       ELSE /\ documents_metadata' = MapDel(documents_metadata, doc_id)
            /\ removed' = removed \cup {doc_id}
            /\ last_op' = [op |-> "delete_document", arg |-> doc_id, ret |-> "True"]
    /\ UNCHANGED <<program, uploadVars, chunkVars, chatVars, serverVars, rankVars, files, vectorstore>>

\* main.delete_document(doc_id), DELETE /api/documents/{doc_id}: the loader's
\* delete_document is called, and the HTTPException(404) raised in the try
\* block for an unknown id is caught by its except Exception and answered
\* as a 500
api_delete_document(doc_id) ==
    /\ program = "backend"
    /\ Started
    /\ IF doc_id \notin DOMAIN documents_metadata
       THEN /\ UNCHANGED <<documents_metadata, removed>>
            /\ last_op' = [op |-> "api_delete_document", arg |-> doc_id, ret |-> "500"]
       ELSE /\ documents_metadata' = MapDel(documents_metadata, doc_id)
            /\ removed' = removed \cup {doc_id}
            /\ last_op' = [op |-> "api_delete_document", arg |-> doc_id, ret |-> "200"]
    /\ UNCHANGED <<program, uploadVars, chunkVars, chatVars, serverVars, rankVars, files, vectorstore>>

\* the orders in which a dict of these keys may be iterated (the model keeps
\* documents_metadata as a map, without its insertion order)
Orders(keys) ==
    {order \in [1..Cardinality(keys) -> keys] :
        \A i, j \in 1..Cardinality(keys) : i # j => order[i] # order[j]}

\* reindex_documents: the loop over self.documents_metadata.items().  Each
\* entry whose file exists is loaded again: load_document makes the doc id
\* anew from the file as it is now, and is passed the entry's "metadata",
\* whose doc_id and category go onto the chunks and into the new entry.  A
\* failing load ends the loop, and so does a load that added a key: the
\* dict iterator raises RuntimeError at its next step.
RECURSIVE ReindexLoop(_, _, _, _, _)
ReindexLoop(fs, docs, store, order, ok) ==
    IF order = <<>> THEN [docs |-> docs, store |-> store, ret |-> "True"]
    ELSE LET meta == docs[Head(order)]
             path == meta.file_path
             doc_id == generate_doc_id(fs, path)
             n == fs[path].nchunks
             loaded == MapSet(docs, doc_id,
                              [file_path |-> path, chunks_count |-> n,
                               category |-> meta.category,
                               doc_id |-> meta.doc_id])
             added == store \o SplitChunks(meta.doc_id, n)
         IN IF ~fs[path].exists
            THEN ReindexLoop(fs, docs, store, Tail(order), ok)
            ELSE IF ~ok
                 THEN [docs |-> docs, store |-> store, ret |-> "False"]
                 ELSE IF doc_id \notin DOMAIN docs
                      THEN [docs |-> loaded, store |-> added, ret |-> "False"]
                      ELSE ReindexLoop(fs, loaded, added, Tail(order), ok)

\* SafetyAgentDocumentLoader.reindex_documents(): the persisted collection
\* is removed and made anew, empty, and the documents are loaded again
reindex(fs, docs, store, order, ok) == ReindexLoop(fs, docs, <<>>, order, ok)

\* POST /api/reindex
reindex_documents(order, ok) ==
    /\ program = "backend"
    /\ Started
    /\ order \in Orders(DOMAIN documents_metadata)
    /\ \E r \in {reindex(files, documents_metadata, vectorstore, order, ok)} :
          /\ Len(r.store) <= MaxStore
          /\ vectorstore' = r.store
          /\ documents_metadata' = r.docs
          /\ removed' = removed \ DOMAIN r.docs
          /\ last_op' = [op |-> "reindex_documents", arg |-> order, ret |-> r.ret]
    /\ UNCHANGED <<program, uploadVars, chunkVars, chatVars, serverVars, rankVars, files>>

\* what similarity_search may return for some query: any k chunks of the
\* collection (all of them when it holds fewer)
SearchResults(store, k) ==
    {hits \in SUBSET (1..Len(store)) : Cardinality(hits) = Min(k, Len(store))}

\* SafetyAgentDocumentLoader.search_documents(query, k); an exception is
\* answered with the empty list
search_documents(k, hits, ok) ==
    /\ program = "backend"
    /\ Started
    /\ hits \in SearchResults(vectorstore, k)
    /\ last_op' = [op |-> "search_documents", arg |-> k,
                   ret |-> IF ok THEN {vectorstore[i] : i \in hits} ELSE {}]
    /\ UNCHANGED <<program, uploadVars, chunkVars, chatVars, serverVars, rankVars, backendVars>>

RECURSIVE SumCounts(_, _)
SumCounts(docs, ids) ==
    IF ids = {} THEN 0
    ELSE LET d == CHOOSE x \in ids : TRUE
         IN docs[d].chunks_count + SumCounts(docs, ids \ {d})

\* SafetyAgentDocumentLoader.get_stats()
loader_get_stats(docs) ==
    [total_documents |-> Cardinality(DOMAIN docs),
     total_chunks |-> SumCounts(docs, DOMAIN docs)]

----------------------------------------------------------------------------
(* Inputs of the ranker, and the state before anything is called. *)

\* the questions: every text of at most MaxQueryLen characters
Queries == UNION {[1..n -> Chars] : n \in 0..MaxQueryLen}

\* chunk texts as the chunker emits them: words joined by single blanks
ChunkTexts == {<<"a">>, <<"A", "?">>, <<"b", " ", "a">>, <<"b">>}

UploadMeta(n, filename, category) ==
    [doc_id |-> UploadId(n), filename |-> filename, category |-> category]

\* a stored document holding the given chunk texts
DocOf(metadata, texts) ==
    [doc_id |-> metadata.doc_id,
     filename |-> metadata.filename,
     category |-> metadata.category,
     chunks |-> [i \in 1..Len(texts) |->
                    NewChunk(metadata, texts[i], i - 1, Len(Split(texts[i])))]]

\* a corpus of the given chunk texts: the first half in the safety manual,
\* the rest in one uploaded document
Corpus(texts) ==
    LET n == Len(texts)
        h == (n + 1) \div 2
    IN IF n = 0 THEN <<>>
       ELSE IF n = h
            THEN <<DocOf(ManualMeta, texts)>>
            ELSE <<DocOf(ManualMeta, SubSeq(texts, 1, h)),
                   DocOf(UploadMeta(1, [stem |-> "a", ext |-> ".txt"], "general"), SubSeq(texts, h + 1, n))>>

Corpora == {Corpus(ts) : ts \in UNION {[1..n -> ChunkTexts] : n \in 0..MaxCorpusChunks}}

NoStats == [total_documents |-> 0, total_chunks |-> 0, categories |-> <<>>]

\* chunk_text has not been called
NoChunking == [text |-> <<>>, size |-> 0, overlap |-> 0]
ChunkIdle ==
    /\ chunk_input = NoChunking
    /\ chunk_output = <<>>

\* no /api/chat request has been made
NoCall == [question |-> <<>>, relevant_chunks |-> <<>>, context |-> <<>>, waiting |-> FALSE]
NoAnswer ==
    [response |-> [message |-> "", text |-> <<>>],
     confidence |-> [num |-> 0, den |-> 1], sources |-> <<>>]
ChatIdle ==
    /\ generator_call = NoCall
    /\ answer = NoAnswer

\* no /api/upload request is under way and no temp file is left behind
TextFile == [stem |-> "a", ext |-> ".txt"]
NoTempFile == [exists |-> FALSE, content |-> <<>>]
UploadIdle ==
    /\ pending = <<>>
    /\ temp_files = [f \in {TextFile} |-> NoTempFile]

BackendIdle ==
    /\ files = NoFiles
    /\ documents_metadata = EmptyMap
    /\ vectorstore = <<>>
    /\ removed = {}

----------------------------------------------------------------------------
(* The chunker on inputs drawn in the initial state. *)

MaxTextLen == 5         \* characters in a text given to the chunker
MaxWindow == 3          \* largest window size given to the chunker

\* "PPE requires hard hats and safety glasses on site.", word by word
PPEWords ==
    <<<<"P", "P", "E">>,
      <<"r", "e", "q", "u", "i", "r", "e", "s">>,
      <<"h", "a", "r", "d">>,
      <<"h", "a", "t", "s">>,
      <<"a", "n", "d">>,
      <<"s", "a", "f", "e", "t", "y">>,
      <<"g", "l", "a", "s", "s", "e", "s">>,
      <<"o", "n">>,
      <<"s", "i", "t", "e", ".">>>>

PPEDocument == Join(PPEWords)
PPEInput == [text |-> PPEDocument, size |-> 5, overlap |-> 2]

\* the texts: every text of at most MaxTextLen letters and blanks
ChunkerTexts == UNION {[1..n -> {"a", "b", " "}] : n \in 0..MaxTextLen}

\* the calls: a text, and a window and an overlap with 0 < overlap < size
ChunkInputs ==
    {[text |-> t, size |-> sz, overlap |-> ov] :
        t \in ChunkerTexts, sz \in 2..MaxWindow, ov \in 1..(MaxWindow - 1)}

ChunkerMeta == UploadMeta(0, [stem |-> "a", ext |-> ".txt"], "general")

InitChunk ==
    /\ program = "chunker"
    /\ last_op = NoOp
    /\ chunk_input \in {in \in ChunkInputs : in.overlap < in.size} \cup {PPEInput}
    /\ chunk_output = <<>>
    /\ knowledge_base = <<>>
    /\ stats = NoStats
    /\ question = <<>>
    /\ max_chunks = DefaultMaxChunks
    /\ relevant_chunks = <<>>
    /\ BackendIdle
    /\ openai_client = FALSE
    /\ ChatIdle
    /\ UploadIdle

Chunk ==
    /\ program = "chunker"
    /\ last_op = NoOp
    /\ chunk_output' = ChunkText(chunk_input.text, ChunkerMeta,
                                 chunk_input.size, chunk_input.overlap)
    /\ last_op' = [op |-> "chunk_text", arg |-> "text", ret |-> "returned"]
    /\ UNCHANGED <<program, uploadVars, serverVars, rankVars, backendVars, chunk_input, chatVars>>

NextChunk == Chunk

SpecChunk == InitChunk /\ [][NextChunk]_vars

Chunked == program = "chunker" /\ last_op.op = "chunk_text"

----------------------------------------------------------------------------
(* The ranker on inputs drawn in the initial state. *)

\* the question "hard hats"
HardHatsQuery ==
    <<"h", "a", "r", "d", " ", "h", "a", "t", "s">>

\* a knowledge base whose only content is that document cut with window 5, overlap 2
PPECorpus ==
    <<[doc_id |-> ChunkerMeta.doc_id,
       filename |-> ChunkerMeta.filename,
       category |-> ChunkerMeta.category,
       chunks |-> ChunkText(PPEInput.text, ChunkerMeta, PPEInput.size, PPEInput.overlap)]>>

InitRank ==
    /\ program = "rank"
    /\ last_op = NoOp
    /\ \/ /\ question \in Queries
          /\ max_chunks \in 0..MaxLimit
          /\ knowledge_base \in Corpora
       \/ /\ question = HardHatsQuery
          /\ max_chunks = DefaultMaxChunks
          /\ knowledge_base = PPECorpus
    /\ relevant_chunks = <<>>
    /\ stats = NoStats
    /\ BackendIdle
    /\ ChunkIdle
    /\ openai_client = FALSE
    /\ ChatIdle
    /\ UploadIdle

Rank ==
    /\ program = "rank"
    /\ last_op = NoOp
    /\ find_relevant_chunks(question, max_chunks)

NextRank == Rank

SpecRank == InitRank /\ [][NextRank]_vars

Ranked == program = "rank" /\ last_op.op = "find_relevant_chunks"

----------------------------------------------------------------------------
(* simple_server.py: /api/chat, the generator call and the two answers.    *)
(*                                                                         *)
(* The handlers are coroutines of one event loop (uvicorn.run(app)).       *)
(* chat_with_agent has a single await, on generate_ai_response, and that   *)
(* coroutine calls openai_client.chat.completions.create, a blocking call  *)
(* of the synchronous client: while the call is out, generator_call.waiting*)
(* holds and the loop runs no other handler.                               *)

TopSources == 3             \* relevant_chunks[:3]
SingleExcerpt == 500        \* top_chunks[0]['text'][:500]
ListExcerpt == 300          \* chunk['text'][:300]

Zero == [num |-> 0, den |-> 1]
GeneratedConfidence == [num |-> 9, den |-> 10]      \* 0.9
ConfidenceFloor == [num |-> 1, den |-> 2]           \* 0.5
ConfidenceCeiling == [num |-> 4, den |-> 5]         \* 0.8
DefaultRelevance == [num |-> 4, den |-> 5]          \* chunk.get('relevance_score', 0.8)

\* max(a, b) and min(a, b) of Python, on two arguments
RatMax(a, b) == IF ScoreGt(b, a) THEN b ELSE a
RatMin(a, b) == IF ScoreGt(a, b) THEN b ELSE a

\* chunk.get('relevance_score', 0.8)
RelevanceOrDefault(chunk) ==
    IF chunk.relevance_score = NoScore THEN DefaultRelevance ELSE chunk.relevance_score

\* the chunks of the list are the dicts the knowledge base holds: reading one
\* reads what the knowledge base holds for it now
Stored(kb, chunk) ==
    LET all == AllChunks(kb)
    IN IF \E i \in 1..Len(all) : all[i].id = chunk.id
       THEN all[CHOOSE i \in 1..Len(all) : all[i].id = chunk.id]
       ELSE chunk

StoredAll(kb, chunks) == [i \in 1..Len(chunks) |-> Stored(kb, chunks[i])]

\* text[:n]
Prefix(t, n) == SubSeq(t, 1, Min(n, Len(t)))

Ellipsis == <<".", ".", ".">>
BlankLine == <<"\n", "\n">>
Digits == <<"1", "2", "3", "4", "5", "6", "7", "8", "9">>

\* "\n\n".join(texts)
RECURSIVE JoinBlankLines(_)
JoinBlankLines(texts) ==
    IF texts = <<>> THEN <<>>
    ELSE IF Len(texts) = 1 THEN texts[1]
    ELSE texts[1] \o BlankLine \o JoinBlankLines(Tail(texts))

\* the context built from the whole list: the [:3] lost
ContextOfAll(chunks) == JoinBlankLines([i \in 1..Len(chunks) |-> chunks[i].text])

\* the context of the prompt: the texts of relevant_chunks[:3]
Context(chunks) ==
    LET top == Truncate(chunks, TopSources)
    IN JoinBlankLines([i \in 1..Len(top) |-> top[i].text])

\* the list of sources of an answer
SourcesOf(top) ==
    [i \in 1..Len(top) |->
        [filename |-> top[i].filename,
         chunk_id |-> top[i].id,
         relevance |-> RelevanceOrDefault(top[i])]]

\* f"{i}. {chunk['text'][:300]}...\n\n" for each chunk, in order
RECURSIVE NumberedFrom(_, _)
NumberedFrom(top, i) ==
    IF i > Len(top) THEN <<>>
    ELSE <<Digits[i]>> \o <<".", " ">> \o Prefix(top[i].text, ListExcerpt)
            \o Ellipsis \o BlankLine \o NumberedFrom(top, i + 1)

Preamble == "Based on the safety manual:\n\n"

\* the answers that carry a fixed message
PleaseAsk ==
    [response |-> [message |-> "Please provide a question.", text |-> <<>>],
     confidence |-> Zero, sources |-> <<>>]
NoManual ==
    [response |-> [message |-> "I don't have access to the safety manual yet. Please restart the server to load the safety manual.",
                   text |-> <<>>],
     confidence |-> Zero, sources |-> <<>>]
NotFound ==
    [response |-> [message |-> "I couldn't find specific information about that topic in the safety manual. Try asking about general safety requirements, PPE, emergency procedures, or incident reporting.",
                   text |-> <<>>],
     confidence |-> Zero, sources |-> <<>>]
SorryError ==
    [response |-> [message |-> "Sorry, I encountered an error: ", text |-> <<>>],
     confidence |-> Zero, sources |-> <<>>]

\* generate_simple_response without the clamp: the raw score as confidence
generate_simple_response_unclamped(kb, relevant) ==
    LET top_chunks == StoredAll(kb, Truncate(relevant, TopSources))
    IN [response |-> [message |-> Preamble,
                      text |-> IF Len(top_chunks) = 1
                               THEN Prefix(top_chunks[1].text, SingleExcerpt) \o Ellipsis
                               ELSE NumberedFrom(top_chunks, 1)],
        confidence |-> RelevanceOrDefault(top_chunks[1]),
        sources |-> SourcesOf(top_chunks)]

\* generate_simple_response(relevant_chunks), for a list that is not empty
generate_simple_response(kb, relevant) ==
    LET top_chunks == StoredAll(kb, Truncate(relevant, TopSources))
    IN [response |-> [message |-> Preamble,
                      text |-> IF Len(top_chunks) = 1
                               THEN Prefix(top_chunks[1].text, SingleExcerpt) \o Ellipsis
                               ELSE NumberedFrom(top_chunks, 1)],
        confidence |-> RatMin(ConfidenceCeiling,
                              RatMax(ConfidenceFloor, RelevanceOrDefault(top_chunks[1]))),
        sources |-> SourcesOf(top_chunks)]

\* top_chunks[0] of an empty list raises IndexError
SimpleRaises(relevant) == relevant = <<>>

\* what the generator call can do once it responds: return a completion, or
\* raise (a timeout of the client library, a response without content, a
\* connection error)
GeneratorOutcomes == {"ok", "timeout", "malformed", "transport"}
GeneratorTexts == {<<"o", "k">>, <<" ", "o", "k", "\n">>}

\* generate_ai_response whose except clause re-raises: chat_with_agent's own
\* except clause then answers
generate_ai_response_raising(outcome, content, kb, relevant) ==
    IF outcome = "ok"
    THEN [response |-> [message |-> "", text |-> Strip(content, Whitespace \cup {"\n"})],
          confidence |-> GeneratedConfidence,
          sources |-> SourcesOf(StoredAll(kb, Truncate(relevant, TopSources)))]
    ELSE SorryError

\* generate_ai_response, from the return of chat.completions.create on
generate_ai_response(outcome, content, kb, relevant) ==
    IF outcome = "ok"
    THEN [response |-> [message |-> "", text |-> Strip(content, Whitespace \cup {"\n"})],
          confidence |-> GeneratedConfidence,
          sources |-> SourcesOf(StoredAll(kb, Truncate(relevant, TopSources)))]
    ELSE IF SimpleRaises(relevant) THEN SorryError
    ELSE generate_simple_response(kb, relevant)

\* if not relevant_chunks, with the test lost
NothingRelevantNever(relevant) == FALSE

\* if not relevant_chunks
NothingRelevant(relevant) == relevant = <<>>

\* a request body: query.get('query', '') is a string, or something without strip()
ChatQuery(t) == [is_str |-> TRUE, text |-> t]
NotAString == [is_str |-> FALSE, text |-> <<>>]

Returned(ret, result, kb, q, relevant) ==
    [ret |-> ret, answer |-> result, kb |-> kb, question |-> q,
     relevant |-> relevant, call |-> NoCall]

\* chat_with_agent up to its return, or up to the generator call
ChatResult(query, kb, client) ==
    IF ~query.is_str
    THEN Returned("error", SorryError, kb, <<>>, <<>>)
    ELSE LET q == Strip(query.text, Whitespace)
         IN IF q = <<>>
            THEN Returned("empty_question", PleaseAsk, kb, q, <<>>)
            ELSE IF kb = <<>>
            THEN Returned("empty_knowledge_base", NoManual, kb, q, <<>>)
            ELSE IF ScanRaises(q, kb)
            THEN Returned("error", SorryError, ScoredBase(q, kb), q, <<>>)
            ELSE LET relevant == RankResult(q, kb, DefaultMaxChunks)
                     scored == ScoredBase(q, kb)
                 IN IF NothingRelevant(relevant)
                    THEN Returned("not_found", NotFound, scored, q, relevant)
                    ELSE IF client
                    THEN [ret |-> "suspended", answer |-> NoAnswer, kb |-> scored,
                          question |-> q, relevant |-> relevant,
                          call |-> [question |-> q, relevant_chunks |-> relevant,
                                    context |-> Context(relevant), waiting |-> TRUE]]
                    ELSE IF SimpleRaises(relevant)
                    THEN Returned("error", SorryError, scored, q, relevant)
                    ELSE Returned("extractive", generate_simple_response(scored, relevant),
                                  scored, q, relevant)

\* POST /api/chat: the handler runs from its start to its return, or to the
\* call of chat.completions.create, without letting another handler in
chat_with_agent(query) ==
    /\ program = "simple_server"
    /\ ~generator_call.waiting
    /\ \E r \in {ChatResult(query, knowledge_base, openai_client)} :
          /\ knowledge_base' = r.kb
          /\ question' = r.question
          /\ max_chunks' = DefaultMaxChunks
          /\ relevant_chunks' = r.relevant
          /\ generator_call' = r.call
          /\ answer' = r.answer
          /\ last_op' = [op |-> "chat_with_agent", arg |-> query, ret |-> r.ret]
    /\ UNCHANGED <<program, uploadVars, stats, backendVars, chunkVars, openai_client>>

\* chat.completions.create returns or raises, and generate_ai_response and
\* chat_with_agent run to their return
generator_returns(outcome, content) ==
    /\ program = "simple_server"
    /\ generator_call.waiting
    /\ answer' = generate_ai_response(outcome, content, knowledge_base,
                                      generator_call.relevant_chunks)
    /\ generator_call' = NoCall
    /\ last_op' = [op |-> "generate_ai_response", arg |-> outcome,
                   ret |-> IF outcome = "ok" THEN "generated" ELSE "fallback"]
    /\ UNCHANGED <<program, uploadVars, serverVars, rankVars, backendVars, chunkVars, openai_client>>

----------------------------------------------------------------------------
(* simple_server.py serving requests: the knowledge base as startup left   *)
(* it, a client built or not, and then any requests.                       *)

\* the questions asked
ChatQueries ==
    {ChatQuery(t) : t \in {<<>>, <<" ">>, <<"a">>, <<" ", "b", " ">>, <<"?">>,
                           <<"A", " ", "b">>, <<"a", "b">>,
                           <<"a", "?", " ", "b", "?", " ", "c">>,
                           <<"a", "?", " ", "c", " ", "c">>}}
        \cup {NotAString}

\* the knowledge bases served: none, one chunk, two chunks, four chunks
ChatCorpora ==
    {Corpus(<<>>),
     Corpus(<< <<"a">> >>),
     Corpus(<< <<"b", " ", "a">>, <<"A", "?">> >>),
     Corpus(<< <<"b">>, <<"a">>, <<"b", " ", "a">>, <<"A", "?">> >>)}

\* the counters as load_safety_manual and then upload_document leave them
RECURSIVE CategoriesOf(_)
CategoriesOf(kb) ==
    IF kb = <<>> THEN <<>>
    ELSE LET rest == CategoriesOf(SubSeq(kb, 1, Len(kb) - 1))
             category == kb[Len(kb)].category
         IN IF InSeq(category, rest) THEN rest ELSE Append(rest, category)

ServedStats(kb) ==
    [total_documents |-> Len(kb),
     total_chunks |-> Len(AllChunks(kb)),
     categories |-> CategoriesOf(kb)]

InitChat ==
    /\ program = "simple_server"
    /\ last_op = NoOp
    /\ knowledge_base \in ChatCorpora
    /\ stats = ServedStats(knowledge_base)
    /\ openai_client \in BOOLEAN
    /\ question = <<>>
    /\ max_chunks = DefaultMaxChunks
    /\ relevant_chunks = <<>>
    /\ BackendIdle
    /\ ChunkIdle
    /\ ChatIdle
    /\ UploadIdle

NextChat ==
    \/ \E query \in ChatQueries : chat_with_agent(query)
    \/ \E outcome \in GeneratorOutcomes, content \in GeneratorTexts :
           generator_returns(outcome, content)
    \/ get_stats
    \/ \E file \in UploadFiles : upload_document(file, "general", <<"b", " ", "a">>)

SpecChat == InitChat /\ [][NextChat]_vars

\* the steps of the server itself: the event loop runs a handler whenever a
\* request is there and the loop is free.  Nothing makes the generator answer.
ServerStep ==
    \/ \E query \in ChatQueries : chat_with_agent(query)
    \/ get_stats
    \/ \E file \in UploadFiles : upload_document(file, "general", <<"b", " ", "a">>)

SpecChatFair == SpecChat /\ WF_vars(ServerStep)

----------------------------------------------------------------------------
(* The two servers: a behaviour runs one of them. *)

ManualOnDisk ==
    {NoFile} \cup {[exists |-> TRUE, mtime |-> 0, nchunks |-> n] : n \in 1..MaxFileChunks}

Init ==
    /\ program \in {"simple_server", "backend"}
    /\ last_op = NoOp
    /\ knowledge_base = <<>>
    /\ stats = NoStats
    /\ question = <<>>
    /\ max_chunks = DefaultMaxChunks
    /\ relevant_chunks = <<>>
    /\ files \in {fs \in [Paths -> ManualOnDisk] :
                    /\ fs[UploadPath] = NoFile
                    /\ program = "simple_server" => fs = NoFiles}
    /\ documents_metadata = EmptyMap
    /\ vectorstore = <<>>
    /\ removed = {}
    /\ ChunkIdle
    /\ openai_client = FALSE
    /\ ChatIdle
    /\ UploadIdle

Next ==
    \/ \E outcome \in {"loaded", "missing", "malformed"}, texts \in ManualData :
           load_safety_manual(outcome, texts)
    \/ \E file \in UploadFiles, category \in Categories, text \in UploadTexts :
           upload_document(file, category, text)
    \/ get_stats
    \/ \E ok \in BOOLEAN : startup_event(ok)
    \/ \E path \in Paths, category \in Categories, ok \in BOOLEAN :
           load_document(path, category, ok)
    \/ \E file \in UploadFiles, category \in Categories,
          n \in 1..MaxFileChunks, ok \in BOOLEAN :
           backend_upload_document(file, category, n, ok)
    \/ \E doc_id \in DocIds : delete_document(doc_id)
    \/ \E k \in 1..MaxK, ok \in BOOLEAN :
           \E hits \in SearchResults(vectorstore, k) : search_documents(k, hits, ok)

Spec == Init /\ [][Next]_vars

----------------------------------------------------------------------------
(* Claims about the knowledge bases (Spec). *)

RECURSIVE SumChunks(_)
SumChunks(kb) == IF kb = <<>> THEN 0 ELSE Len(Head(kb).chunks) + SumChunks(Tail(kb))

SeqToSet(seq) == {seq[i] : i \in 1..Len(seq)}

IngestOps == {"load_safety_manual", "upload_document", "load_document",
              "backend_upload_document", "startup_event"}

\* the operation just returned is an ingest that succeeded
Ingested(op) == op.op \in IngestOps /\ op.ret \in {"True", "200", "returned"}

\* stats() totals: documents and chunks
Totals ==
    IF program = "simple_server"
    THEN <<stats.total_documents, stats.total_chunks>>
    ELSE <<loader_get_stats(documents_metadata).total_documents,
           loader_get_stats(documents_metadata).total_chunks>>

\* the texts of the chunks an ingest of the given content stores
IngestedTexts(op) ==
    IF op.op = "load_safety_manual"
    THEN op.arg.content
    ELSE [i \in 1..Len(chunk_text(op.arg.content, ManualMeta)) |->
             chunk_text(op.arg.content, ManualMeta)[i].text]

StoredTexts(kb, doc_id) ==
    [i \in 1..Len(DocAt(kb, doc_id).chunks) |-> DocAt(kb, doc_id).chunks[i].text]

\* C1: the reported stats equal a recomputation over the knowledge-base map:
\* the number of entries, the sum of their chunk counts, the set of their
\* categories.
C1_StatsEqualRecomputation ==
    program = "simple_server" =>
        /\ stats.total_documents = Len(knowledge_base)
        /\ stats.total_chunks = SumChunks(knowledge_base)
        /\ SeqToSet(stats.categories) =
               {knowledge_base[i].category : i \in 1..Len(knowledge_base)}

\* C2: after an ingest of an identifier, the chunks stored and searchable for
\* it are exactly the chunks of that latest ingest, each once.
C2_ReingestReplacesChunks ==
    Ingested(last_op) =>
        IF program = "simple_server"
        THEN /\ Cardinality({i \in 1..Len(knowledge_base) :
                                knowledge_base[i].doc_id = last_op.arg.doc_id}) = 1
             /\ StoredTexts(knowledge_base, last_op.arg.doc_id) = IngestedTexts(last_op)
        ELSE \A k \in 0..(MaxStore - 1) :
                 Cardinality({i \in 1..Len(vectorstore) :
                                 vectorstore[i] = [doc_id |-> last_op.arg.doc_id,
                                                   index |-> k]})
                   = IF k < last_op.arg.content THEN 1 ELSE 0

\* the identifier the step ingests is already stored with the same content
Reingest(op) ==
    IF program = "simple_server"
    THEN /\ HasDoc(knowledge_base, op.arg.doc_id)
         /\ StoredTexts(knowledge_base, op.arg.doc_id) = IngestedTexts(op)
    ELSE /\ op.arg.doc_id \in DOMAIN documents_metadata
         /\ documents_metadata[op.arg.doc_id].chunks_count = op.arg.content

SameCall(a, b) == a.op = b.op /\ a.ret = b.ret /\ a.arg = b.arg

\* C3: re-ingesting an identifier with the same content adds nothing to the
\* stats totals, and an ingest repeated at once leaves them as the first left
\* them.
C3_ReingestAddsNothing ==
    [][(Ingested(last_op') /\ Reingest(last_op')) =>
          /\ Totals'[1] <= Totals[1]
          /\ Totals'[2] <= Totals[2]
          /\ (Ingested(last_op) /\ SameCall(last_op, last_op')) => Totals' = Totals
      ]_vars

\* C3 witness: load_document has just re-ingested a document: the collection
\* holds its chunks twice and the stats count them once.
C3_Witness ==
    /\ program = "backend"
    /\ last_op.op = "load_document"
    /\ last_op.ret = "returned"
    /\ StoreCount(vectorstore, last_op.arg.doc_id) = 2 * last_op.arg.content
    /\ Totals = <<1, last_op.arg.content>>

\* C4: once delete_document(d) has returned True, no later search returns a
\* chunk owned by d.
C4_RemovedChunksNotSearchable ==
    last_op.op = "search_documents" =>
        \A c \in last_op.ret : c.doc_id \notin removed

\* C5: removing an identifier that is not in the knowledge base returns False
\* and leaves the stored documents and the stats as they were.
C5_RemoveUnknownIsNoOp ==
    [][(last_op'.op = "delete_document"
          /\ last_op'.arg \notin DOMAIN documents_metadata) =>
          /\ last_op'.ret = "False"
          /\ documents_metadata' = documents_metadata
          /\ vectorstore' = vectorstore
          /\ Totals' = Totals
      ]_vars

\* C5 witness: delete_document has just returned False while documents are
\* stored.
C5_Witness ==
    /\ last_op.op = "delete_document"
    /\ last_op.ret = "False"
    /\ DOMAIN documents_metadata # {}
    /\ vectorstore # <<>>

----------------------------------------------------------------------------
(* Claims about the ranker (SpecRank). *)

\* the question's normalized tokens: lowercased, punctuation-stripped, non-empty
NonEmptyTokens(q) == SelectSeq(QuestionWords(q), LAMBDA w : w # <<>>)

\* the number of normalized tokens that occur in the lowercased chunk text
TokenHits(q, chunk) == WordMatches(NonEmptyTokens(q), Lower(chunk.text))

ReturnedIds == {relevant_chunks[i].id : i \in 1..Len(relevant_chunks)}

\* the chunks of the corpus that the call did not return
LeftOut ==
    {c \in {AllChunks(knowledge_base)[i] : i \in 1..Len(AllChunks(knowledge_base))} :
        c.id \notin ReturnedIds}

\* the score the call gives a chunk: zero when it is no hit
ScoreFor(q, chunk) ==
    IF ChunkIsHit(q, chunk) THEN RelevanceScore(q, chunk) ELSE [num |-> 0, den |-> 1]

\* C6: rank never returns a chunk with zero token matches: every returned
\* chunk's lowercased text contains at least one non-empty normalized token of
\* the question.
C6_ReturnedChunksMatchAToken ==
    Ranked =>
        \A i \in 1..Len(relevant_chunks) :
            TokenHits(question, relevant_chunks[i]) > 0

\* C7: a question that leaves no token once the tokens emptied by stripping
\* . , ! ? are discarded makes rank return the empty sequence.
C7_NoTokensNoResult ==
    (Ranked /\ NonEmptyTokens(question) = <<>>) => relevant_chunks = <<>>

\* C8: the returned sequence is no longer than the limit, its scores are
\* non-negative and non-increasing, and no chunk left out scores strictly
\* higher than a returned one.
C8_RankedCappedAndOrdered ==
    Ranked =>
        /\ Len(relevant_chunks) <= max_chunks
        /\ \A i \in 1..Len(relevant_chunks) :
               /\ relevant_chunks[i].relevance_score.num >= 0
               /\ relevant_chunks[i].relevance_score.den > 0
        /\ \A i \in 1..(Len(relevant_chunks) - 1) :
               ScoreGeq(relevant_chunks[i].relevance_score,
                        relevant_chunks[i + 1].relevance_score)
        /\ \A c \in LeftOut : \A i \in 1..Len(relevant_chunks) :
               ~ScoreGt(ScoreFor(question, c), relevant_chunks[i].relevance_score)

\* C8 witness: two hits, a limit of one, and the hit returned is the later one
\* in scan order: the sort moved it ahead and the slice dropped the other.
C8_Witness ==
    /\ Ranked
    /\ max_chunks = 1
    /\ Len(relevant_chunks) = 1
    /\ Len(Hits(question, AllChunks(knowledge_base))) = 2
    /\ relevant_chunks[1].id # Hits(question, AllChunks(knowledge_base))[1].id

\* C9: rank on the empty string and on an all-whitespace string returns the
\* empty sequence and does not raise.
C9_BlankQuestionReturnsEmpty ==
    (Ranked /\ \A i \in 1..Len(question) : question[i] \in Whitespace) =>
        /\ relevant_chunks = <<>>
        /\ last_op.ret = "returned"

\* C9 witness: an all-whitespace question was ranked over a corpus with chunks.
C9_Witness ==
    /\ Ranked
    /\ Len(question) >= 2
    /\ \A i \in 1..Len(question) : question[i] \in Whitespace
    /\ Len(AllChunks(knowledge_base)) >= 2

\* C10: every returned chunk's score is matches / tokenCount, with tokenCount
\* the number of non-empty normalized tokens and matches the number of those
\* tokens found in the chunk text, plus 2 when a whitespace-delimited segment
\* of the lowercased question occurs in the chunk text.
C10_ScoreIsMatchesOverTokenCount ==
    Ranked =>
        \A i \in 1..Len(relevant_chunks) :
            LET c == relevant_chunks[i]
                tokenCount == Len(NonEmptyTokens(question))
                matches == TokenHits(question, c)
                           + (IF PhraseMatch(question, Lower(c.text))
                              THEN PhraseBonus ELSE 0)
            IN /\ tokenCount > 0
               /\ c.relevance_score.num * tokenCount = matches * c.relevance_score.den

----------------------------------------------------------------------------
(* Claims about the chunker (SpecChunk). *)

ChunkTextsOf(chunks) == [k \in 1..Len(chunks) |-> chunks[k].text]

\* "PPE requires hard hats and", "hard hats and safety glasses", "safety glasses on site."
ScenarioChunks ==
    <<<<"P", "P", "E", " ", "r", "e", "q", "u", "i", "r", "e", "s", " ",
        "h", "a", "r", "d", " ", "h", "a", "t", "s", " ", "a", "n", "d">>,
      <<"h", "a", "r", "d", " ", "h", "a", "t", "s", " ", "a", "n", "d",
        " ", "s", "a", "f", "e", "t", "y", " ", "g", "l", "a", "s", "s",
        "e", "s">>,
      <<"s", "a", "f", "e", "t", "y", " ", "g", "l", "a", "s", "s", "e",
        "s", " ", "o", "n", " ", "s", "i", "t", "e", ".">>>>

\* "PPE requires hard hats and", "hats and safety glasses on", "glasses on site."
StrideThreeChunks ==
    <<<<"P", "P", "E", " ", "r", "e", "q", "u", "i", "r", "e", "s", " ",
        "h", "a", "r", "d", " ", "h", "a", "t", "s", " ", "a", "n", "d">>,
      <<"h", "a", "t", "s", " ", "a", "n", "d", " ", "s", "a", "f", "e",
        "t", "y", " ", "g", "l", "a", "s", "s", "e", "s", " ", "o", "n">>,
      <<"g", "l", "a", "s", "s", "e", "s", " ", "o", "n", " ", "s", "i",
        "t", "e", ".">>>>

\* C11 (as stated): chunking "PPE requires hard hats and safety glasses on
\* site." with windowSize 5 and overlap 2 yields exactly the chunks "PPE
\* requires hard hats and", "hard hats and safety glasses", "safety glasses
\* on site." in that order.
C11_ScenarioChunksAsStated ==
    (Chunked /\ chunk_input = PPEInput) =>
        ChunkTextsOf(chunk_output) = ScenarioChunks

\* C11 (amended): chunking that document with windowSize 5 and overlap 2
\* yields exactly the windows that start at words 0, 3 and 6: "PPE requires
\* hard hats and", "hats and safety glasses on", "glasses on site.", with
\* indexes 0, 1, 2 and word counts 5, 5, 3.
C11_ScenarioChunksStrideThree ==
    (Chunked /\ chunk_input = PPEInput) =>
        /\ ChunkTextsOf(chunk_output) = StrideThreeChunks
        /\ \A k \in 1..Len(chunk_output) :
              /\ chunk_output[k].chunk_index = k - 1
              /\ chunk_output[k].id = ChunkId(ChunkerMeta.doc_id, k - 1)
        /\ [k \in 1..Len(chunk_output) |-> chunk_output[k].word_count] = <<5, 5, 3>>

C11_Witness ==
    /\ Chunked
    /\ chunk_input = PPEInput
    /\ Len(chunk_output) = 3

\* ceil(a / b) for b > 0
CeilDiv(a, b) == (a + b - 1) \div b

\* the words of the window that starts at word k * (size - overlap)
WindowWords(in, k) ==
    LET words == Split(in.text)
        start == k * (in.size - in.overlap)
    IN SubSeq(words, start + 1, Min(start + in.size, Len(words)))

\* the windows of the text that are blank after trimming
BlankWindows(in) ==
    {k \in 0..(CeilDiv(Len(Split(in.text)), in.size - in.overlap) - 1) :
        Strip(Join(WindowWords(in, k)), Whitespace) = <<>>}

\* C13: for every text and 0 < overlap < windowSize the number of chunks is
\* ceil(wordCount / (windowSize - overlap)) minus the number of windows that
\* are blank after trimming; empty or all-whitespace text yields no chunk.
C13_ChunkCount ==
    (Chunked /\ 0 < chunk_input.overlap /\ chunk_input.overlap < chunk_input.size) =>
        LET wordCount == Len(Split(chunk_input.text))
            stride == chunk_input.size - chunk_input.overlap
        IN /\ Len(chunk_output) = CeilDiv(wordCount, stride) - Cardinality(BlankWindows(chunk_input))
           /\ (\A i \in 1..Len(chunk_input.text) : chunk_input.text[i] \in Whitespace)
                  => chunk_output = <<>>

\* three words cut with stride 2: the count is rounded up to 2
C13_Witness ==
    /\ Chunked
    /\ Len(Split(chunk_input.text)) = 3
    /\ chunk_input.size - chunk_input.overlap = 2
    /\ Len(chunk_output) = 2

\* C14: chunk k, in index order, is the contiguous run of original words
\* that starts at word k * (windowSize - overlap), and every word of the
\* original word sequence appears in at least one chunk.
C14_ChunksPreserveContent ==
    (Chunked /\ 0 < chunk_input.overlap /\ chunk_input.overlap < chunk_input.size) =>
        LET words == Split(chunk_input.text)
            stride == chunk_input.size - chunk_input.overlap
        IN /\ \A k \in 1..Len(chunk_output) :
                 /\ chunk_output[k].chunk_index = k - 1
                 /\ Split(chunk_output[k].text) = WindowWords(chunk_input, k - 1)
                 /\ Len(Split(chunk_output[k].text)) = Min(chunk_input.size, Len(words) - (k - 1) * stride)
           /\ \A i \in 1..Len(words) :
                 \E k \in 1..Len(chunk_output) :
                     LET at == i - (k - 1) * stride
                         got == Split(chunk_output[k].text)
                     IN at \in 1..Len(got) /\ got[at] = words[i]

\* three words cut into two overlapping windows of two words
C14_Witness ==
    /\ Chunked
    /\ Len(Split(chunk_input.text)) = 3
    /\ chunk_input.size = 2
    /\ chunk_input.overlap = 1
    /\ Len(chunk_output) = 3
    /\ Split(chunk_output[1].text)[2] = Split(chunk_output[2].text)[1]

----------------------------------------------------------------------------
(* Claims about the chunker and the ranker together (SpecRank). *)

RankedScenario == Ranked /\ question = HardHatsQuery /\ max_chunks = DefaultMaxChunks

\* C12 (as stated): with that document cut with windowSize 5 and overlap 2
\* as the only content of the knowledge base, the query "hard hats" ranks
\* the second chunk (index 1) highest: it is the first element of the result.
C12_HardHatsRanksSecondChunkFirst ==
    RankedScenario =>
        /\ relevant_chunks # <<>>
        /\ relevant_chunks[1].chunk_index = 1

\* C12 (amended): the query "hard hats" ranks the first chunk (index 0)
\* highest: it is the first element of the result, and every other returned
\* chunk has a strictly lower score.
C12_HardHatsRanksFirstChunkFirst ==
    RankedScenario =>
        /\ relevant_chunks # <<>>
        /\ relevant_chunks[1].chunk_index = 0
        /\ \A i \in 2..Len(relevant_chunks) :
              ScoreGt(relevant_chunks[1].relevance_score, relevant_chunks[i].relevance_score)

\* both chunks that hold "hats" are returned, with scores 4/2 and 3/2
C12_Witness ==
    /\ RankedScenario
    /\ Len(relevant_chunks) = 2
    /\ relevant_chunks[1].relevance_score = [num |-> 4, den |-> 2]
    /\ relevant_chunks[2].relevance_score = [num |-> 3, den |-> 2]

----------------------------------------------------------------------------
(* Claims about the answers (SpecChat). *)

Asked == last_op.op = "chat_with_agent" /\ last_op.arg.is_str
GeneratorAnswered == last_op.op = "generate_ai_response" /\ last_op.arg = "ok"
GeneratorFailed == last_op.op = "generate_ai_response" /\ last_op.arg # "ok"

RatEq(a, b) == a.num * b.den = b.num * a.den
One == [num |-> 1, den |-> 1]
Clamp(x, lo, hi) == IF ScoreGt(lo, x) THEN lo ELSE IF ScoreGt(x, hi) THEN hi ELSE x

\* the first min(3, n) chunks of the ranked list
TopRanked == SubSeq(relevant_chunks, 1, Min(3, Len(relevant_chunks)))

\* C15: when ranking yields no chunk, the query returns the fixed not-found
\* message with confidence 0.0 and no sources, and the generator is not
\* invoked even when one is configured.
C15_NothingRankedNotFound ==
    (/\ Asked
     /\ Strip(last_op.arg.text, Whitespace) # <<>>
     /\ knowledge_base # <<>>
     /\ RankResult(Strip(last_op.arg.text, Whitespace), knowledge_base, DefaultMaxChunks) = <<>>)
        => /\ answer.response.message = "I couldn't find specific information about that topic in the safety manual. Try asking about general safety requirements, PPE, emergency procedures, or incident reporting."
           /\ answer.response.text = <<>>
           /\ answer.confidence = Zero
           /\ answer.sources = <<>>
           /\ ~generator_call.waiting
           /\ last_op.ret = "not_found"

\* a generator is configured and no chunk holds "ab"
C15_Witness ==
    /\ Asked
    /\ openai_client
    /\ last_op.arg.text = <<"a", "b">>
    /\ Len(AllChunks(knowledge_base)) = 4
    /\ answer.confidence = Zero
    /\ last_op.ret = "not_found"

\* C16: when the generator's call succeeds the answer has confidence exactly
\* 0.9 and its sources are the first min(3, n) ranked chunks in rank order,
\* each as (filename, chunk id, relevance score of the chunk for this query);
\* the context sent to the generator is the text of those same chunks.
C16_GeneratedAnswer ==
    /\ generator_call.waiting =>
          generator_call.context =
              JoinBlankLines([i \in 1..Len(TopRanked) |-> TopRanked[i].text])
    /\ GeneratorAnswered =>
          /\ answer.confidence = [num |-> 9, den |-> 10]
          /\ Len(answer.sources) = Min(3, Len(relevant_chunks))
          /\ \A i \in 1..Len(answer.sources) :
                /\ answer.sources[i].filename = relevant_chunks[i].filename
                /\ answer.sources[i].chunk_id = relevant_chunks[i].id
                /\ answer.sources[i].relevance = RelevanceScore(question, relevant_chunks[i])
                /\ i > 1 => ScoreGeq(answer.sources[i - 1].relevance,
                                     answer.sources[i].relevance)

\* four chunks are ranked and three are cited
C16_Witness ==
    /\ GeneratorAnswered
    /\ Len(relevant_chunks) = 4
    /\ Len(answer.sources) = 3
    /\ answer.response.text = <<"o", "k">>

\* C17: when the generator's call fails in any way the query surfaces no
\* error: it returns exactly what the extractive strategy gives for the same
\* ranked chunks, with a non-empty response and confidence in [0.5, 0.8].
C17_GeneratorFailureFallsBack ==
    GeneratorFailed =>
        /\ answer = ChatResult(ChatQuery(question), knowledge_base, FALSE).answer
        /\ answer.response.message = "Based on the safety manual:\n\n"
        /\ answer.response.text # <<>>
        /\ Len(answer.sources) = Len(TopRanked)
        /\ ScoreGeq(answer.confidence, ConfidenceFloor)
        /\ ScoreGeq(ConfidenceCeiling, answer.confidence)

C17_Witness ==
    /\ GeneratorFailed
    /\ last_op.arg = "timeout"
    /\ Len(answer.sources) = 3
    /\ answer.confidence = ConfidenceCeiling

\* C18: on the extractive path the confidence is the top ranked chunk's
\* score clamped to [0.5, 0.8], and whatever the outcome of a query the
\* returned confidence lies in [0.0, 1.0].
C18_ConfidenceClamped ==
    /\ ((Asked /\ last_op.ret = "extractive") \/ GeneratorFailed) =>
          RatEq(answer.confidence,
                Clamp(RelevanceScore(question, relevant_chunks[1]),
                      [num |-> 1, den |-> 2], [num |-> 4, den |-> 5]))
    /\ ScoreGeq(answer.confidence, Zero)
    /\ ScoreGeq(One, answer.confidence)

\* a top score of 2/3, strictly inside the clamp
C18_Witness ==
    /\ Asked
    /\ last_op.ret = "extractive"
    /\ answer.confidence = [num |-> 2, den |-> 3]

\* C19: every query eventually returns an AnswerResult even when the
\* generator never responds: a call that is out is ended by the caller.
C19_EveryQueryReturns == generator_call.waiting ~> ~generator_call.waiting

\* C20: while one query is suspended on the generator call, other queries,
\* uploads and stats reads can still start and complete.
C20_RequestsIndependent ==
    generator_call.waiting =>
        /\ ENABLED get_stats
        /\ ENABLED (\E query \in ChatQueries : chat_with_agent(query))
        /\ ENABLED (\E file \in UploadFiles : upload_document(file, "general", <<"b", " ", "a">>))

----------------------------------------------------------------------------
(* simple_server.py: /api/upload as the event loop runs it.  The handler   *)
(* is a coroutine: it runs to "await file.read()" with the temp file open, *)
(* other requests may run there, and it then runs to its return.           *)

MaxPending == 2         \* uploads suspended at the same time

\* a byte that is no UTF-8
UndecodableByte == "xff"

\* what the uploaded files hold
UploadContents == {<<>>, <<"a">>, <<"b", " ", "a">>, <<UndecodableByte>>}

\* open(file_path, 'r', encoding='utf-8').read() raises UnicodeDecodeError
Decodable(bytes) == \A i \in 1..Len(bytes) : bytes[i] # UndecodableByte

\* str(e) of the two exceptions, shortened to their first words
NoSuchFile ==
    <<"[", "E", "r", "r", "n", "o", " ", "2", "]">>
CantDecode ==
    <<"'", "u", "t", "f", "-", "8", "'", " ", "c", "o", "d", "e", "c">>

\* f"[Error reading text file: {e}]"
ErrorReadingTextFile(e) ==
    <<"[", "E", "r", "r", "o", "r", " ", "r", "e", "a", "d", "i", "n", "g",
      " ", "t", "e", "x", "t", " ", "f", "i", "l", "e", ":", " ">>
        \o e \o <<"]">>

\* _extract_text_file(file_path): the text, or the placeholder when the file
\* cannot be opened or decoded
extract_text_file(fs, path) ==
    IF ~fs[path].exists THEN ErrorReadingTextFile(NoSuchFile)
    ELSE IF ~Decodable(fs[path].content) THEN ErrorReadingTextFile(CantDecode)
    ELSE fs[path].content

\* extract_text(file_path) of a .txt or .md upload
extract_text(fs, file) == extract_text_file(fs, file)

\* buffer.write(content) at offset 0 of a file opened "wb"
Overlay(old, content) == content \o SubSeq(old, Len(content) + 1, Len(old))

\* the requests left suspended when request i returns; os.remove(temp_path)
\* unlinks the file the others of the same filename hold open
Unlinking(requests, i) ==
    LET rest == SubSeq(requests, 1, i - 1) \o SubSeq(requests, i + 1, Len(requests))
    IN [j \in 1..Len(rest) |->
           IF rest[j].file = requests[i].file
           THEN [rest[j] EXCEPT !.linked = FALSE]
           ELSE rest[j]]

\* upload_document up to "content = await file.read()": the extension is
\* checked and temp_{filename} is opened "wb", created or truncated
upload_begin(file, category, content) ==
    /\ program = "simple_server"
    /\ ~generator_call.waiting
    /\ Len(pending) < MaxPending
    /\ Len(knowledge_base) + Len(pending) < MaxDocs
    /\ IF file.ext \notin allowed_extensions
       THEN /\ last_op' = [op |-> "upload_document",
                           arg |-> [doc_id |-> UploadId(Len(knowledge_base)),
                                    content |-> <<>>, file |-> file,
                                    bytes |-> content],
                           ret |-> "500"]
            /\ UNCHANGED uploadVars
       ELSE /\ pending' = Append(pending, [file |-> file, category |-> category,
                                           content |-> content, linked |-> TRUE])
            /\ temp_files' = [temp_files EXCEPT ![file] =
                                 [exists |-> TRUE, content |-> <<>>]]
            /\ UNCHANGED last_op
    /\ UNCHANGED <<program, chunkVars, chatVars, serverVars, rankVars, backendVars>>

\* upload_document from buffer.write(content) to its return: the bytes are
\* written through the open handle, the text is extracted from temp_path,
\* chunked and stored, the counters updated and the temp file removed
upload_finish(i) ==
    /\ program = "simple_server"
    /\ ~generator_call.waiting
    /\ i \in 1..Len(pending)
    /\ LET request == pending[i]
           written == IF request.linked
                      THEN [temp_files EXCEPT ![request.file].content =
                               Overlay(@, request.content)]
                      ELSE temp_files
           text == extract_text(written, request.file)
           doc_id == UploadId(Len(knowledge_base))
           metadata == [doc_id |-> doc_id, filename |-> request.file,
                        category |-> request.category]
           chunks == chunk_text(text, metadata)
           doc == [doc_id |-> doc_id, filename |-> request.file,
                   category |-> request.category, chunks |-> chunks]
       IN /\ knowledge_base' = DictSet(knowledge_base, doc)
          /\ stats' = UploadStats(request.category, chunks)
          /\ temp_files' = [written EXCEPT ![request.file] = NoTempFile]
          /\ pending' = Unlinking(pending, i)
          /\ last_op' = [op |-> "upload_document",
                         arg |-> [doc_id |-> doc_id, content |-> text,
                                  file |-> request.file,
                                  bytes |-> request.content],
                         ret |-> "200"]
    /\ UNCHANGED <<program, chunkVars, chatVars, rankVars, backendVars>>

\* the questions asked while documents are uploaded
UploadQueries == {ChatQuery(<<"a">>)}

\* the server after startup: the manual loaded or not, no client built
InitUpload ==
    /\ program = "simple_server"
    /\ last_op = NoOp
    /\ knowledge_base \in {Corpus(<<>>), Corpus(<< <<"a">> >>)}
    /\ stats = ServedStats(knowledge_base)
    /\ openai_client = FALSE
    /\ question = <<>>
    /\ max_chunks = DefaultMaxChunks
    /\ relevant_chunks = <<>>
    /\ BackendIdle
    /\ ChunkIdle
    /\ ChatIdle
    /\ UploadIdle

NextUpload ==
    \/ \E file \in UploadFiles, content \in UploadContents :
           upload_begin(file, "general", content)
    \/ \E i \in 1..MaxPending : upload_finish(i)
    \/ get_stats
    \/ \E query \in UploadQueries : chat_with_agent(query)

SpecUpload == InitUpload /\ [][NextUpload]_vars

----------------------------------------------------------------------------
(* backend/main.py serving its document endpoints: start, upload, delete   *)
(* and reindex.  The uploads directory outlives the process, so a file of  *)
(* an earlier run may be there at the start.                               *)

InitBackend ==
    /\ program = "backend"
    /\ last_op = NoOp
    /\ knowledge_base = <<>>
    /\ stats = NoStats
    /\ question = <<>>
    /\ max_chunks = DefaultMaxChunks
    /\ relevant_chunks = <<>>
    /\ files \in [Paths -> ManualOnDisk]
    /\ documents_metadata = EmptyMap
    /\ vectorstore = <<>>
    /\ removed = {}
    /\ ChunkIdle
    /\ openai_client = FALSE
    /\ ChatIdle
    /\ UploadIdle

NextBackend ==
    \/ \E ok \in BOOLEAN : startup_event(ok)
    \/ \E path \in Paths, category \in Categories, ok \in BOOLEAN :
           load_document(path, category, ok)
    \/ \E file \in UploadFiles, n \in 1..MaxFileChunks, ok \in BOOLEAN :
           backend_upload_document(file, "general", n, ok)
    \/ \E doc_id \in DocIds : api_delete_document(doc_id)
    \/ \E order \in Orders(DOMAIN documents_metadata), ok \in BOOLEAN :
           reindex_documents(order, ok)

SpecBackend == InitBackend /\ [][NextBackend]_vars

----------------------------------------------------------------------------
(* Further claims about the ranker (SpecRank). *)

StoredChunks == {AllChunks(knowledge_base)[i] : i \in 1..Len(AllChunks(knowledge_base))}

\* C22: ranking is read-only: a rank call leaves every stored chunk exactly
\* as it was, and the relevance score is never stored on the chunks the
\* knowledge base holds.
C22_RankLeavesChunksUnscored ==
    Ranked => \A c \in StoredChunks : c.relevance_score = NoScore

\* no whitespace-delimited segment of the question begins or ends with . , ! ?
PlainSegments(q) ==
    \A i \in 1..Len(Split(q)) :
        LET seg == Split(q)[i]
        IN seg[1] \notin {".", ",", "!", "?"} /\ seg[Len(seg)] \notin {".", ",", "!", "?"}

\* the number of the question's segments that occur in the lowercased chunk text
SegmentHits(q, chunk) ==
    Cardinality({i \in 1..Len(Split(q)) : Contains(Lower(chunk.text), Lower(Split(q)[i]))})

\* C28: for a query none of whose segments begins or ends with . , ! ? every
\* returned chunk receives the +2 phrase bonus, so the returned chunks are
\* ordered by their token-hit counts alone.
C28_PlainQueryAlwaysBoosted ==
    (Ranked /\ PlainSegments(question)) =>
        /\ \A i \in 1..Len(relevant_chunks) :
              /\ relevant_chunks[i].relevance_score.num = SegmentHits(question, relevant_chunks[i]) + 2
              /\ relevant_chunks[i].relevance_score.den = Len(Split(question))
        /\ \A i \in 1..Len(relevant_chunks), j \in 1..Len(relevant_chunks) :
              i < j => SegmentHits(question, relevant_chunks[i])
                          >= SegmentHits(question, relevant_chunks[j])

\* two chunks returned for "a b": the one holding both words first
C28_Witness ==
    /\ Ranked
    /\ question = <<"a", " ", "b">>
    /\ Len(relevant_chunks) = 2
    /\ SegmentHits(question, relevant_chunks[1]) = 2
    /\ SegmentHits(question, relevant_chunks[2]) = 1

----------------------------------------------------------------------------
(* Further claims about the chunker (SpecChunk). *)

\* C26: the chunk at position k of a chunked document has chunk_index k and
\* id "{doc_id}_chunk_{k}", its word_count is the number of words of its text
\* and lies between 1 and windowSize, and so the chunk ids are unique.
C26_ChunkFieldsConsistent ==
    Chunked =>
        /\ \A k \in 1..Len(chunk_output) :
              /\ chunk_output[k].chunk_index = k - 1
              /\ chunk_output[k].id = [doc |-> ChunkerMeta.doc_id, k |-> k - 1]
              /\ chunk_output[k].doc_id = ChunkerMeta.doc_id
              /\ chunk_output[k].word_count = Len(Split(chunk_output[k].text))
              /\ chunk_output[k].word_count >= 1
              /\ chunk_output[k].word_count <= chunk_input.size
        /\ \A j \in 1..Len(chunk_output), k \in 1..Len(chunk_output) :
              j # k => chunk_output[j].id # chunk_output[k].id

\* a chunk of two words, five characters long
C26_Witness ==
    /\ Chunked
    /\ Len(chunk_output) = 2
    /\ chunk_output[1].word_count = 2
    /\ Len(chunk_output[1].text) = 5
    /\ chunk_output[2].word_count = 1

----------------------------------------------------------------------------
(* Claims about uploads as the event loop interleaves them (SpecUpload). *)

Uploaded == last_op.op = "upload_document" /\ last_op.arg.file.ext \in allowed_extensions

\* C21: wherever another request can run, a document is absent from the
\* knowledge base or present with its complete chunk set, and the counters
\* count exactly the documents present, also in what a stats read returned.
C21_NoHalfWrittenDocument ==
    /\ stats = ServedStats(knowledge_base)
    /\ last_op.op = "get_stats" => last_op.arg = ServedStats(knowledge_base)
    /\ \A i \in 1..Len(knowledge_base) :
          \A k \in 1..Len(knowledge_base[i].chunks) :
              /\ knowledge_base[i].chunks[k].chunk_index = k - 1
              /\ knowledge_base[i].chunks[k].doc_id = knowledge_base[i].doc_id
    /\ (Uploaded /\ last_op.ret = "200") =>
          /\ HasDoc(knowledge_base, last_op.arg.doc_id)
          /\ ChunkTextsOf(DocAt(knowledge_base, last_op.arg.doc_id).chunks)
                = ChunkTextsOf(chunk_text(last_op.arg.content,
                                          [doc_id |-> last_op.arg.doc_id,
                                           filename |-> last_op.arg.file,
                                           category |-> "general"]))

\* stats read while one upload is suspended and another has been stored
C21_Witness ==
    /\ last_op.op = "get_stats"
    /\ Len(pending) >= 1
    /\ stats.total_chunks >= 2
    /\ \E i \in 1..Len(knowledge_base) :
          knowledge_base[i].doc_id.kind = "doc" /\ Len(knowledge_base[i].chunks) = 1

\* C23: an upload whose extraction succeeds and yields no usable chunk is
\* answered with an empty-content error, not with success, and stores nothing.
C23_EmptyContentSurfaced ==
    (/\ Uploaded
     /\ Decodable(last_op.arg.bytes)
     /\ last_op.arg.content = last_op.arg.bytes
     /\ Split(last_op.arg.content) = <<>>)
        => /\ last_op.ret # "200"
           /\ ~HasDoc(knowledge_base, last_op.arg.doc_id)

\* C24: an upload whose file cannot be read is answered with an error and
\* adds no document, no chunk and nothing to the counters.
C24_ExtractionFailureSurfaced ==
    (Uploaded /\ ~Decodable(last_op.arg.bytes))
        => /\ last_op.ret # "200"
           /\ ~HasDoc(knowledge_base, last_op.arg.doc_id)

\* C25: every upload stores its document under an identifier that is not in
\* the knowledge base yet: the document is added, and every document already
\* there stays as it was, in every interleaving of uploads after startup.
C25_UploadNeverOverwrites ==
    [][Len(pending') < Len(pending) =>
          /\ ~HasDoc(knowledge_base, last_op'.arg.doc_id)
          /\ Len(knowledge_base') = Len(knowledge_base) + 1
          /\ knowledge_base'[Len(knowledge_base')].doc_id = last_op'.arg.doc_id
          /\ \A i \in 1..Len(knowledge_base) : knowledge_base'[i] = knowledge_base[i]
          /\ \A i \in 1..Len(knowledge_base'), j \in 1..Len(knowledge_base') :
                i # j => knowledge_base'[i].doc_id # knowledge_base'[j].doc_id]_vars

\* two uploads stored after the bulk-loaded manual
C25_Witness ==
    /\ Len(knowledge_base) = 3
    /\ knowledge_base[1].doc_id = SafetyManualId
    /\ knowledge_base[2].doc_id = UploadId(1)
    /\ knowledge_base[3].doc_id = UploadId(2)
    /\ Uploaded /\ last_op.ret = "200"

\* C29: the text stored for an upload is extracted from that upload's own
\* bytes, whatever other uploads run meanwhile, also under the same filename.
C29_OwnContentStored ==
    (Uploaded /\ last_op.ret = "200" /\ Decodable(last_op.arg.bytes))
        => last_op.arg.content = last_op.arg.bytes

----------------------------------------------------------------------------
(* Claims about the backend's document endpoints (SpecBackend). *)

\* C27: a client-error rejection raised in a handler reaches the client with
\* its own status: 400 for an upload of an unsupported type, 404 for the
\* delete of an unknown document.
C27_ClientErrorKeepsStatus ==
    /\ (/\ last_op.op = "backend_upload_document"
        /\ last_op.arg.file.ext \notin allowed_extensions) => last_op.ret = "400"
    /\ (/\ last_op.op = "api_delete_document"
        /\ last_op.ret # "200") => last_op.ret = "404"

\* C30: after reindex_documents returned True the vector store holds chunks
\* for exactly the documents listed in documents_metadata, each indexed once,
\* and the chunk total of get_stats is the number of chunks in the store.
C30_ReindexStoreMatchesMetadata ==
    (last_op.op = "reindex_documents" /\ last_op.ret = "True") =>
        /\ \A d \in DOMAIN documents_metadata :
              StoreCount(vectorstore, d) = documents_metadata[d].chunks_count
        /\ \A i \in 1..Len(vectorstore) :
              vectorstore[i].doc_id \in DOMAIN documents_metadata
        /\ loader_get_stats(documents_metadata).total_chunks = Len(vectorstore)

====
